---- MODULE Spec2Model ----
(***************************************************************************)
(* Ant-colony search for a knight's tour (src/main.rs).                    *)
(*                                                                         *)
(* The program's f32 pheromone values are modelled in exact arithmetic:    *)
(* every value is a whole number of Units, Unit being a fraction of 1.0    *)
(* small enough that the initial level, every deposit                      *)
(* (num_moves - i) / (63 - i) and MaxCycles evaporations are exact.  The   *)
(* whole numbers exceed the range of TLC's integers, so they are kept as   *)
(* little-endian sequences of Digits digits in base Base.  A NaN (0.0/0.0) *)
(* is modelled as such: every comparison with it is false.                 *)
(***************************************************************************)
EXTENDS Integers, Sequences, FiniteSets

\* ------------------------------------------------------------------ bounds
\* run(cycles): cycles ranges over 0..MaxCycles
MaxCycles == 2
\* a tour that does not end is followed until tabu holds MaxTabu squares
MaxTabu == 70
\* number of base-Base digits of a pheromone value
Digits == 8

\* ------------------------------------------------------- program constants
NumSquares == 64
BoardSize == 8
MaxMoves == 63
\* evaporation rates are RateNum / RateDen; main() uses 0.25
RateDen == 4
\* the initial pheromone levels are n / d with d dividing LevelDen (main(): 0.000001)
LevelDen == 1000000

Squares == 0 .. (NumSquares - 1)

\* ------------------------------------------------- exact wide arithmetic
Base == 1000 * 1000

RECURSIVE Gcd(_, _)
Gcd(a, b) == IF b = 0 THEN a ELSE Gcd(b, a % b)

BigOfNat(n) == [i \in 1 .. Digits |-> IF i = 1 THEN n ELSE 0]
BigZero == BigOfNat(0)
BigIsZero(a) == \A i \in 1 .. Digits : a[i] = 0

RECURSIVE AddFrom(_, _, _, _)
AddFrom(a, b, i, c) ==
    IF i > Digits THEN <<>>
    ELSE LET s == a[i] + b[i] + c
         IN  <<s % Base>> \o AddFrom(a, b, i + 1, s \div Base)
BigAdd(a, b) == AddFrom(a, b, 1, 0)

RECURSIVE MulFrom(_, _, _, _)
MulFrom(a, m, i, c) ==
    IF i > Digits THEN <<>>
    ELSE LET s == a[i] * m + c
         IN  <<s % Base>> \o MulFrom(a, m, i + 1, s \div Base)
\* a * m for a small natural m
BigMulSmall(a, m) == MulFrom(a, m, 1, 0)

RECURSIVE DivFrom(_, _, _, _)
DivFrom(a, d, i, r) ==
    IF i = 0 THEN <<>>
    ELSE LET cur == r * Base + a[i]
         IN  DivFrom(a, d, i - 1, cur % d) \o <<cur \div d>>
\* a \div d for a small positive d
BigDivSmall(a, d) == DivFrom(a, d, Digits, 0)

RECURSIVE ModFrom(_, _, _, _)
ModFrom(a, d, i, r) ==
    IF i = 0 THEN r ELSE ModFrom(a, d, i - 1, (r * Base + a[i]) % d)
BigModSmall(a, d) == ModFrom(a, d, Digits, 0)

RECURSIVE LeqFrom(_, _, _)
LeqFrom(a, b, i) ==
    IF i = 0 THEN TRUE
    ELSE IF a[i] # b[i] THEN a[i] < b[i]
    ELSE LeqFrom(a, b, i - 1)
BigLeq(a, b) == LeqFrom(a, b, Digits)
BigLess(a, b) == BigLeq(a, b) /\ a # b

\* The highest power of each prime that is at most MaxMoves; their product is the
\* least common multiple of 1 .. MaxMoves, the divisors 63 - i of Ant::lay_pheromone.
PrimePowers == <<32, 27, 25, 49, 11, 13, 17, 19, 23, 29, 31, 37, 41, 43, 47, 53, 59, 61>>

RECURSIVE ProductFrom(_, _)
ProductFrom(ms, j) == IF j = 0 THEN BigOfNat(1) ELSE BigMulSmall(ProductFrom(ms, j - 1), ms[j])
LcmOfDivisors == ProductFrom(PrimePowers, Len(PrimePowers))

RECURSIVE BigTimesPower(_, _, _)
BigTimesPower(a, m, e) == IF e = 0 THEN a ELSE BigTimesPower(BigMulSmall(a, m), m, e - 1)

\* The f32 value 1.0, in Units.
One == BigTimesPower(BigTimesPower(LcmOfDivisors, RateDen, MaxCycles), 1000, 2)

\* The f32 value n / d, for d dividing LevelDen or d in 1 .. MaxMoves.
Ratio(n, d) ==
    IF d > 1000
    THEN BigMulSmall(BigDivSmall(BigDivSmall(One, 1000), d \div 1000), n)
    ELSE BigMulSmall(BigDivSmall(One, d), n)

\* ------------------------------------------------------------------ graph
Max(a, b) == IF a > b THEN a ELSE b
Min(a, b) == IF a < b THEN a ELSE b

EdgeNew(pheromone, target) == [pheromone |-> pheromone, target |-> target]

NodeNew(index) == [x |-> index % BoardSize, y |-> index \div BoardSize, edges |-> <<>>]

\* Faulty variant of ScanOrder: the two loops nested the other way round (y outside, x inside).
ScanOrder_YOutside(min_x, max_x, min_y, max_y) ==
    LET nx == max_x - min_x + 1
    IN  [j \in 1 .. (nx * (max_y - min_y + 1)) |->
            <<min_x + ((j - 1) % nx), min_y + ((j - 1) \div nx)>>]

\* The (x, y) pairs of the nested loops of Graph::new, in the order they are visited:
\* x from min_x to max_x, and for each x, y from min_y to max_y.
ScanOrder(min_x, max_x, min_y, max_y) ==
    LET ny == max_y - min_y + 1
    IN  [j \in 1 .. ((max_x - min_x + 1) * ny) |->
            <<min_x + ((j - 1) \div ny), min_y + ((j - 1) % ny)>>]

IsKnightMove(node, x, y) == 5 = (node.x - x) * (node.x - x) + (node.y - y) * (node.y - y)

\* Faulty variant of NodeEdges: the ranges min_x..max_x and min_y..max_y without their "+ 1",
\* so that the last column and the last row of the box are not looked at.
NodeEdges_HalfOpenRanges(node, initial_pheromone) ==
    LET min_x == Max(0, node.x - 2)
        max_x == Min(BoardSize - 1, node.x + 2) - 1
        min_y == Max(0, node.y - 2)
        max_y == Min(BoardSize - 1, node.y + 2) - 1
        ny    == max_y - min_y + 1
        scan  == [j \in 1 .. ((max_x - min_x + 1) * ny) |->
                     <<min_x + ((j - 1) \div ny), min_y + ((j - 1) % ny)>>]
        hits  == SelectSeq(scan, LAMBDA xy : IsKnightMove(node, xy[1], xy[2]))
    IN  [j \in 1 .. Len(hits) |-> EdgeNew(initial_pheromone, hits[j][2] * BoardSize + hits[j][1])]

NodeEdges(node, initial_pheromone) ==
    LET min_x == Max(0, node.x - 2)
        max_x == Min(BoardSize - 1, node.x + 2)
        min_y == Max(0, node.y - 2)
        max_y == Min(BoardSize - 1, node.y + 2)
        hits  == SelectSeq(ScanOrder(min_x, max_x, min_y, max_y),
                           LAMBDA xy : IsKnightMove(node, xy[1], xy[2]))
    IN  [j \in 1 .. Len(hits) |-> EdgeNew(initial_pheromone, hits[j][2] * BoardSize + hits[j][1])]

\* Graph::new: nodes[i] for i in 0..64
GraphNew(initial_pheromone) ==
    [i \in Squares |-> [NodeNew(i) EXCEPT !.edges = NodeEdges(NodeNew(i), initial_pheromone)]]

\* Node::edge(&k): k counts from 0
EdgeAt(node, k) == node.edges[k + 1]

\* Faulty variant of EvaporatePheromones: edge.pheromone *= rate, the "1.0 -" forgotten.
EvaporatePheromones_TimesRate(g, rate) ==
    [i \in DOMAIN g |->
        [g[i] EXCEPT !.edges =
            [j \in DOMAIN g[i].edges |->
                [g[i].edges[j] EXCEPT
                    !.pheromone = BigDivSmall(BigMulSmall(@, rate), RateDen)]]]]

EvaporatePheromones(g, rate) ==
    [i \in DOMAIN g |->
        [g[i] EXCEPT !.edges =
            [j \in DOMAIN g[i].edges |->
                [g[i].edges[j] EXCEPT
                    !.pheromone = BigDivSmall(BigMulSmall(@, RateDen - rate), RateDen)]]]]

\* -------------------------------------------------------------------- ant
AntNew(start) == [start |-> start, current |-> start, tabu |-> <<start>>, moves |-> <<>>]

Contains(seq, v) == \E j \in 1 .. Len(seq) : seq[j] = v

\* powf(pheromone, pheromone_strength_exponent) with the exponent 1.0
PheromoneStrength(pheromone) == pheromone

\* The list pks of Ant::tour: (k, strength) of every edge whose target is not in tabu.
Pks(ant, g) ==
    LET node == g[ant.current]
        ks   == SelectSeq([j \in 1 .. Len(node.edges) |-> j - 1],
                          LAMBDA k : ~Contains(ant.tabu, EdgeAt(node, k).target))
    IN  [j \in 1 .. Len(ks) |-> <<ks[j], PheromoneStrength(EdgeAt(node, ks[j]).pheromone)>>]

RECURSIVE SumFrom(_, _)
SumFrom(pks, j) == IF j = 0 THEN BigZero ELSE BigAdd(SumFrom(pks, j - 1), pks[j][2])
PkSum(pks) == SumFrom(pks, Len(pks))

\* pk / pk_sum.  pk_sum = 0 only when every pk is 0, and 0.0 / 0.0 is NaN.
Divide(pk, pk_sum) ==
    IF BigIsZero(pk_sum) THEN [nan |-> TRUE, num |-> BigZero, den |-> BigZero]
    ELSE [nan |-> FALSE, num |-> pk, den |-> pk_sum]

Ps(pks, pk_sum) == [j \in 1 .. Len(pks) |-> <<pks[j][1], Divide(pks[j][2], pk_sum)>>]

\* The running value x of the selection loop is draw - sub / den, draw = a / b.
XOfDraw(draw) == [nan |-> FALSE, a |-> draw[1], b |-> draw[2], sub |-> BigZero, den |-> BigOfNat(1)]

\* x -= p (every p of one list has the same denominator)
Subtract(x, p) ==
    IF x.nan \/ p.nan THEN [x EXCEPT !.nan = TRUE]
    ELSE [x EXCEPT !.sub = BigAdd(@, p.num), !.den = p.den]

\* x <= 0.0, false for a NaN
LeqZero(x) ==
    /\ ~x.nan
    /\ BigLeq(BigMulSmall(x.den, x.a), BigMulSmall(x.sub, x.b))

\* Faulty variant of ScanFrom: k is the place of p in the list ps, not the edge number
\* p.0 stored with it.
RECURSIVE ScanFrom_ListPosition(_, _, _)
ScanFrom_ListPosition(ps, j, x) ==
    IF j > Len(ps) THEN 0
    ELSE LET x1 == Subtract(x, ps[j][2])
         IN  IF LeqZero(x1) THEN j - 1 ELSE ScanFrom_ListPosition(ps, j + 1, x1)

\* let mut k = 0; for p in &ps { x -= p.1; if x <= 0.0 { k = p.0; break; } }
RECURSIVE ScanFrom(_, _, _)
ScanFrom(ps, j, x) ==
    IF j > Len(ps) THEN 0
    ELSE LET x1 == Subtract(x, ps[j][2])
         IN  IF LeqZero(x1) THEN ps[j][1] ELSE ScanFrom(ps, j + 1, x1)

ChooseEdge(pks, draw) == ScanFrom(Ps(pks, PkSum(pks)), 1, XOfDraw(draw))

\* Faulty variant of TourMove: tabu.push(self.current) done before self.current = next,
\* so that the square left is pushed, not the square entered.
TourMove_PushesSquareLeft(ant, g, draw) ==
    LET k    == ChooseEdge(Pks(ant, g), draw)
        next == EdgeAt(g[ant.current], k).target
    IN  [ant EXCEPT !.current = next,
                    !.tabu = Append(@, ant.current),
                    !.moves = Append(@, k)]

\* One iteration of the loop of Ant::tour that does not break.
TourMove(ant, g, draw) ==
    LET k    == ChooseEdge(Pks(ant, g), draw)
        next == EdgeAt(g[ant.current], k).target
    IN  [ant EXCEPT !.current = next,
                    !.tabu = Append(@, next),
                    !.moves = Append(@, k)]

\* pks.is_empty(): the loop breaks
DeadEnd(ant, g) == Pks(ant, g) = <<>>

\* Faulty variant of TourResult: the visited squares counted instead of the moves.
TourResult_CountsTabu(ant) == Len(ant.tabu) = MaxMoves

\* the value Ant::tour returns
TourResult(ant) == Len(ant.moves) = MaxMoves

\* Faulty variant of DeltaPheromone: the divisor 63 for every step, its "- i" forgotten.
DeltaPheromone_WholeDivisor(num_moves, i) == Ratio(num_moves - i, MaxMoves)

\* Faulty variant of DeltaPheromone: the step number left out, every step given
\* num_moves / 63.
DeltaPheromone_FlatShare(num_moves, i) == Ratio(num_moves, MaxMoves)

\* delta_pheromone of step i (from 0) of num_moves
DeltaPheromone(num_moves, i) == Ratio(num_moves - i, MaxMoves - i)

\* Faulty variant of LayFrom: edge.pheromone = delta_pheromone, "=" for "+=".
RECURSIVE LayFrom_Assigns(_, _, _, _)
LayFrom_Assigns(g, ant, i, current) ==
    IF i >= Len(ant.moves) THEN g
    ELSE LET k == ant.moves[i + 1]
             j == k + 1
             g1 == [g EXCEPT ![current].edges[j].pheromone =
                                DeltaPheromone(Len(ant.moves), i)]
         IN  LayFrom_Assigns(g1, ant, i + 1, g[current].edges[j].target)

\* Faulty variant of LayFrom: the edge is built anew with Edge::new(pheromone, k), the
\* move number put where the target belongs.
RECURSIVE LayFrom_RebuildsEdge(_, _, _, _)
LayFrom_RebuildsEdge(g, ant, i, current) ==
    IF i >= Len(ant.moves) THEN g
    ELSE LET k == ant.moves[i + 1]
             j == k + 1
             g1 == [g EXCEPT ![current].edges[j] =
                                EdgeNew(BigAdd(@.pheromone, DeltaPheromone(Len(ant.moves), i)), k)]
         IN  LayFrom_RebuildsEdge(g1, ant, i + 1, g[current].edges[j].target)

RECURSIVE LayFrom(_, _, _, _)
LayFrom(g, ant, i, current) ==
    IF i >= Len(ant.moves) THEN g
    ELSE LET k == ant.moves[i + 1]
             j == k + 1
             g1 == [g EXCEPT ![current].edges[j].pheromone =
                                BigAdd(@, DeltaPheromone(Len(ant.moves), i))]
         IN  LayFrom(g1, ant, i + 1, g[current].edges[j].target)

LayPheromone(ant, g) == LayFrom(g, ant, 0, ant.start)

\* ------------------------------------------------------------ the program
VARIABLES
    graph,            \* TourFinder.graph: the nodes, index 0..63
    complete,         \* TourFinder.complete
    incomplete,       \* TourFinder.incomplete
    p_evap_rate,      \* TourFinder.p_evap_rate, as a number of RateDen-ths
    p_initial_level,  \* the argument of TourFinder::new, <<n, d>> for n / d
    cycles,           \* the argument of TourFinder::run
    cyc,              \* the number of cycles run() has completed
    ants,             \* the ants of the cycle under way, index 0..63
    pc,               \* "run", "tour", "lay", "evaporate" or "done"
    ai,               \* index of the ant the for loop under way is at
    draws,            \* the values rand::random will return, cyclically
    di,               \* position of the next draw in draws
    calls             \* history: per ant the tour and lay_pheromone calls that have
                      \* returned in this cycle, and all the evaporate_pheromones calls

vars == <<graph, complete, incomplete, p_evap_rate, p_initial_level, cycles, cyc,
          ants, pc, ai, draws, di, calls>>

\* Initial levels: 0, main()'s 0.000001, and 1.0.
InitialLevels == {<<0, 1>>, <<1, LevelDen>>, <<1, 1>>}

\* Evaporation rates: 0 and main()'s 0.25.
Rates == {0, 1}

\* A draw sequence that leads the ant placed on square 0 of a fresh graph through
\* all 64 squares; every draw is <<a, b>> for a / b in [0, 1).
TourTape ==
    << <<3, 4>>, <<7, 10>>, <<5, 6>>, <<5, 6>>, <<5, 6>>, <<9, 10>>, <<1, 2>>, <<9, 10>>,
       <<5, 6>>, <<1, 4>>, <<3, 8>>, <<1, 6>>, <<1, 4>>, <<1, 10>>, <<1, 4>>, <<3, 4>>,
       <<7, 10>>, <<5, 6>>, <<1, 4>>, <<5, 8>>, <<3, 4>>, <<5, 6>>, <<5, 6>>, <<3, 4>>,
       <<1, 4>>, <<3, 10>>, <<1, 4>>, <<1, 6>>, <<1, 8>>, <<1, 4>>, <<1, 6>>, <<1, 6>>,
       <<5, 6>>, <<1, 2>>, <<1, 4>>, <<1, 4>>, <<1, 8>>, <<1, 6>>, <<1, 2>>, <<1, 6>>,
       <<1, 2>>, <<1, 6>>, <<1, 4>>, <<1, 2>>, <<1, 6>>, <<1, 4>>, <<1, 4>>, <<1, 6>>,
       <<1, 4>>, <<1, 2>>, <<1, 4>>, <<1, 4>>, <<3, 4>>, <<1, 4>>, <<3, 4>>, <<1, 2>>,
       <<1, 6>>, <<1, 4>>, <<3, 4>>, <<1, 2>>, <<3, 4>>, <<1, 2>>, <<1, 2>> >>

\* The least draw, 0.0, every time.
ZeroTape == << <<0, 1>> >>

Tapes == {TourTape, ZeroTape}

NoCalls == [tour |-> [i \in Squares |-> 0], lay |-> [i \in Squares |-> 0], evaporate |-> 0]

\* TourFinder::new(p_initial_level, p_evap_rate), then run(cycles) is entered
Init ==
    /\ p_initial_level \in InitialLevels
    /\ p_evap_rate \in Rates
    /\ cycles \in 0 .. MaxCycles
    /\ draws \in Tapes
    /\ graph = GraphNew(Ratio(p_initial_level[1], p_initial_level[2]))
    /\ complete = 0
    /\ incomplete = 0
    /\ cyc = 0
    /\ ants = <<>>
    /\ pc = "run"
    /\ ai = 0
    /\ di = 1
    /\ calls = NoCalls

\* Faulty variant of RunContinues: the loop stops one cycle short.
RunContinues_OneShort(done, n) == done + 1 < n

\* for _ in 0..cycles: another cycle is due after done cycles
RunContinues(done, n) == done < n

\* Faulty variant of PlaceAnts: for i in 1..64, no ant on square 0.
PlaceAnts_From1 == [i \in 1 .. (NumSquares - 1) |-> AntNew(i)]

\* for i in 0..64 { ants.push(Ant::new(i)); }
PlaceAnts == [i \in Squares |-> AntNew(i)]

\* run: the next cycle() starts; it places an ant on each node
CycleStart ==
    /\ pc = "run"
    /\ RunContinues(cyc, cycles)
    /\ ants' = PlaceAnts
    /\ pc' = "tour"
    /\ ai' = 0
    /\ calls' = [NoCalls EXCEPT !.evaporate = calls.evaporate]
    /\ UNCHANGED <<graph, complete, incomplete, p_evap_rate, p_initial_level, cycles, cyc,
                   draws, di>>

\* one iteration of the loop of ants[ai].tour(&graph) that moves the ant
TourStep ==
    /\ pc = "tour"
    /\ ~DeadEnd(ants[ai], graph)
    /\ Len(ants[ai].tabu) < MaxTabu
    /\ ants' = [ants EXCEPT ![ai] = TourMove(@, graph, draws[di])]
    /\ di' = (di % Len(draws)) + 1
    /\ UNCHANGED <<graph, complete, incomplete, p_evap_rate, p_initial_level, cycles, cyc,
                   pc, ai, draws, calls>>

\* Faulty variant of CycleNext: every ant lays its pheromone as soon as its own tour is over.
CycleNext_LayAfterEachTour(phase, i) ==
    IF phase = "tour" THEN <<"lay", i>>
    ELSE IF i + 1 < NumSquares THEN <<"tour", i + 1>>
    ELSE <<"evaporate", 0>>

\* The order of cycle(): where it goes on after ant i has finished its tour (phase
\* "tour") or its lay_pheromone (phase "lay"): every ant tours, then every ant lays,
\* then the pheromone evaporates.
CycleNext(phase, i) ==
    IF i + 1 < NumSquares THEN <<phase, i + 1>>
    ELSE IF phase = "tour" THEN <<"lay", 0>>
    ELSE <<"evaporate", 0>>

\* if ant.tour(..) { complete += 1 } else { incomplete += 1 }
Tally(result, c, inc) == IF result THEN <<c + 1, inc>> ELSE <<c, inc + 1>>

\* ants[ai].tour(&graph) breaks out of its loop and returns; cycle() counts the result
TourReturn ==
    /\ pc = "tour"
    /\ DeadEnd(ants[ai], graph)
    /\ complete' = Tally(TourResult(ants[ai]), complete, incomplete)[1]
    /\ incomplete' = Tally(TourResult(ants[ai]), complete, incomplete)[2]
    /\ pc' = CycleNext("tour", ai)[1]
    /\ ai' = CycleNext("tour", ai)[2]
    /\ calls' = [calls EXCEPT !.tour[ai] = @ + 1]
    /\ UNCHANGED <<graph, p_evap_rate, p_initial_level, cycles, cyc, ants, draws, di>>

\* ants[ai].lay_pheromone(&mut graph)
Lay ==
    /\ pc = "lay"
    /\ graph' = LayPheromone(ants[ai], graph)
    /\ pc' = CycleNext("lay", ai)[1]
    /\ ai' = CycleNext("lay", ai)[2]
    /\ calls' = [calls EXCEPT !.lay[ai] = @ + 1]
    /\ UNCHANGED <<complete, incomplete, p_evap_rate, p_initial_level, cycles, cyc, ants,
                   draws, di>>

\* graph.evaporate_pheromones(&p_evap_rate); cycle() returns and drops its ants
Evaporate ==
    /\ pc = "evaporate"
    /\ graph' = EvaporatePheromones(graph, p_evap_rate)
    /\ ants' = <<>>
    /\ cyc' = cyc + 1
    /\ pc' = "run"
    /\ calls' = [calls EXCEPT !.evaporate = @ + 1]
    /\ UNCHANGED <<complete, incomplete, p_evap_rate, p_initial_level, cycles, ai, draws, di>>

\* run() has made its last cycle and returns to main
RunReturn ==
    /\ pc = "run"
    /\ ~RunContinues(cyc, cycles)
    /\ pc' = "done"
    /\ UNCHANGED <<graph, complete, incomplete, p_evap_rate, p_initial_level, cycles, cyc,
                   ants, ai, draws, di, calls>>

Next == CycleStart \/ TourStep \/ TourReturn \/ Lay \/ Evaporate \/ RunReturn

Spec == Init /\ [][Next]_vars

\* ------------------------------------------ Ant::tour in f32 arithmetic
\* The selection of Ant::tour with the roundings of f32, for pheromone levels that are
\* small whole numbers (1.0 with no, one or two deposits of 1.0 on it).  An f32 between
\* 2^-30 and 1 is held as its whole number of steps of 2^-30.
Mantissa == 2 ^ 24

Steps == 2 ^ 30

\* round to nearest, ties to even, at 24 significant bits
F32Round(v) ==
    IF v < Mantissa THEN v
    ELSE LET s == CHOOSE t \in 1 .. 7 : v \div (2 ^ t) < Mantissa /\ v \div (2 ^ (t - 1)) >= Mantissa
             q == v \div (2 ^ s)
             r == v % (2 ^ s)
             h == 2 ^ (s - 1)
         IN  (IF r > h \/ (r = h /\ q % 2 = 1) THEN q + 1 ELSE q) * (2 ^ s)

\* x - p in f32
F32Sub(x, p) == IF x >= p THEN F32Round(x - p) ELSE 0 - F32Round(p - x)

\* pk / pk_sum in f32, 1 <= pk <= pk_sum <= 24 whole
F32Div(pk, pk_sum) ==
    LET e == CHOOSE t \in 23 .. 28 :
                 /\ (pk * (2 ^ t)) \div pk_sum >= 2 ^ 23
                 /\ (pk * (2 ^ t)) \div pk_sum < Mantissa
        q == (pk * (2 ^ e)) \div pk_sum
        r == (pk * (2 ^ e)) % pk_sum
    IN  (IF 2 * r > pk_sum \/ (2 * r = pk_sum /\ q % 2 = 1) THEN q + 1 ELSE q) * (2 ^ (30 - e))

\* pk_sum += pheromone_strength: whole numbers add without rounding
RECURSIVE F32SumFrom(_, _)
F32SumFrom(pks, j) == IF j = 0 THEN 0 ELSE F32SumFrom(pks, j - 1) + pks[j][2]

F32Ps(pks) == [j \in 1 .. Len(pks) |-> <<pks[j][1], F32Div(pks[j][2], F32SumFrom(pks, Len(pks)))>>]

\* rand::random::<f32>(): draw[1] / 2^24
F32OfDraw(draw) == draw[1] * (Steps \div draw[2])

\* the value of x after the first j subtractions of the loop
RECURSIVE F32XAfter(_, _, _)
F32XAfter(ps, j, x) == IF j = 0 THEN x ELSE F32Sub(F32XAfter(ps, j - 1, x), ps[j][2])

\* let mut k = 0; for p in &ps { x -= p.1; if x <= 0.0 { k = p.0; break; } }
RECURSIVE F32ScanFrom(_, _, _)
F32ScanFrom(ps, j, x) ==
    IF j > Len(ps) THEN 0
    ELSE LET x1 == F32Sub(x, ps[j][2])
         IN  IF x1 <= 0 THEN ps[j][1] ELSE F32ScanFrom(ps, j + 1, x1)

F32ChooseEdge(pks, draw) == F32ScanFrom(F32Ps(pks), 1, F32OfDraw(draw))

F32TourMove(ant, g, draw) ==
    LET k    == F32ChooseEdge(Pks(ant, g), draw)
        next == EdgeAt(g[ant.current], k).target
    IN  [ant EXCEPT !.current = next,
                    !.tabu = Append(@, next),
                    !.moves = Append(@, k)]

\* the pheromone of edge k of every square, as whole levels
WholeLevels ==
    { <<1, 1, 1, 1, 1, 1, 1, 1>>,
      <<1, 1, 1, 1, 3, 3, 2, 1>>,
      <<1, 1, 1, 1, 1, 1, 3, 3>>,
      <<1, 1, 3, 3, 3, 3, 2, 3>> }

WholeGraph(lv) ==
    [i \in Squares |->
        [NodeNew(i) EXCEPT !.edges =
            [j \in DOMAIN NodeEdges(NodeNew(i), 0) |->
                EdgeNew(lv[j], NodeEdges(NodeNew(i), 0)[j].target)]]]

\* draws of 24 bits: the least, the middle and the greatest
F32Tapes == { << <<0, Mantissa>> >>, << <<Mantissa \div 2, Mantissa>> >>,
              << <<Mantissa - 1, Mantissa>> >> }

\* one ant of a cycle about to tour a graph of whole levels
InitF32 ==
    /\ p_initial_level = <<1, 1>>
    /\ p_evap_rate = 0
    /\ cycles = MaxCycles
    /\ cyc = MaxCycles - 1
    /\ draws \in F32Tapes
    /\ \E lv \in WholeLevels : graph = WholeGraph(lv)
    /\ complete = 0
    /\ incomplete = 0
    /\ ants = PlaceAnts
    /\ pc = "tour"
    /\ ai \in Squares
    /\ di = 1
    /\ calls = NoCalls

\* one iteration of the loop of ants[ai].tour(&graph) that moves the ant
F32TourStep ==
    /\ pc = "tour"
    /\ ~DeadEnd(ants[ai], graph)
    /\ Len(ants[ai].tabu) < MaxTabu
    /\ ants' = [ants EXCEPT ![ai] = F32TourMove(@, graph, draws[di])]
    /\ di' = (di % Len(draws)) + 1
    /\ UNCHANGED <<graph, complete, incomplete, p_evap_rate, p_initial_level, cycles, cyc,
                   pc, ai, draws, calls>>

\* the tour returns and its result is counted
F32TourReturn ==
    /\ pc = "tour"
    /\ DeadEnd(ants[ai], graph)
    /\ complete' = Tally(TourResult(ants[ai]), complete, incomplete)[1]
    /\ incomplete' = Tally(TourResult(ants[ai]), complete, incomplete)[2]
    /\ pc' = "returned"
    /\ calls' = [calls EXCEPT !.tour[ai] = @ + 1]
    /\ UNCHANGED <<graph, p_evap_rate, p_initial_level, cycles, cyc, ants, ai, draws, di>>

NextF32 == F32TourStep \/ F32TourReturn

SpecF32 == InitF32 /\ [][NextF32]_vars

\* ----------------------------------------------------------- model sanity
\* Every divisor the program uses divides 1.0 into whole Units.
ExactUnit ==
    /\ \A d \in 1 .. MaxMoves : BigModSmall(One, d) = 0
    /\ BigModSmall(BigDivSmall(One, 1000), 1000) = 0
    /\ BigModSmall(One, 1000) = 0

\* No pheromone value outgrows its Digits digits.
NoOverflow == \A i \in Squares : \A j \in DOMAIN graph[i].edges :
                 graph[i].edges[j].pheromone[Digits] = 0

\* ---------------------------------------------------------------- claims
Range(seq) == {seq[j] : j \in 1 .. Len(seq)}

NoRepeat(seq) == \A i, j \in 1 .. Len(seq) : i # j => seq[i] # seq[j]

\* C1 (as claimed): while the tours of a cycle run, whatever the initial pheromone
\* (0 included), no ant's tabu holds a square twice and no ant has recorded more than
\* 63 moves.
C1_TabuNeverRepeats ==
    pc = "tour" =>
        \A i \in DOMAIN ants : NoRepeat(ants[i].tabu) /\ Len(ants[i].moves) <= MaxMoves

\* C2: when Ant::tour returns (its loop has reached a square without available move),
\* the value it returns is true if and only if 63 moves are recorded and every one of
\* the 64 squares is in tabu.
C2_TrueIffAllSquaresVisited ==
    (pc = "tour" /\ DeadEnd(ants[ai], graph)) =>
        (TourResult(ants[ai]) <=>
            (Len(ants[ai].moves) = 63 /\ Squares \subseteq Range(ants[ai].tabu)))

\* a tour that is about to return true
C2_Witness == pc = "tour" /\ DeadEnd(ants[ai], graph) /\ TourResult(ants[ai])

KnightTargets(s) ==
    {t \in Squares :
        ((s % 8) - (t % 8)) * ((s % 8) - (t % 8))
            + ((s \div 8) - (t \div 8)) * ((s \div 8) - (t \div 8)) = 5}

TargetsOf(node) == {node.edges[j].target : j \in DOMAIN node.edges}

AfterConstruction == pc = "run" /\ cyc = 0

\* C3: after Graph::new the targets of the edges of every square s are exactly the
\* squares of the board a knight's move away from s, none twice; every square has 2
\* to 8 edges, square 0 has 2 and square 27 has 8; every edge holds the initial
\* pheromone.
C3_EdgesAreTheKnightMoves ==
    AfterConstruction =>
        /\ DOMAIN graph = Squares
        /\ \A s \in Squares :
              /\ graph[s].x = s % 8 /\ graph[s].y = s \div 8
              /\ TargetsOf(graph[s]) = KnightTargets(s)
              /\ Cardinality(TargetsOf(graph[s])) = Len(graph[s].edges)
              /\ Len(graph[s].edges) \in 2 .. 8
              /\ \A j \in DOMAIN graph[s].edges :
                    graph[s].edges[j].pheromone
                        = Ratio(p_initial_level[1], p_initial_level[2])
        /\ Len(graph[0].edges) = 2
        /\ Len(graph[27].edges) = 8

\* the graph main() builds, with 0.000001 on every edge
C3_Witness ==
    /\ AfterConstruction
    /\ p_initial_level = <<1, LevelDen>>
    /\ ~BigIsZero(graph[27].edges[8].pheromone)

\* C4: the edges of every square are stored by increasing target x and, for equal x,
\* by increasing target y; the edge list of square 0 is [17, 10], so its edge 0 leads
\* to square 17.
C4_EdgesInScanOrder ==
    AfterConstruction =>
        /\ \A s \in Squares : \A j \in 1 .. (Len(graph[s].edges) - 1) :
              LET a == graph[s].edges[j].target
                  b == graph[s].edges[j + 1].target
              IN  \/ a % 8 < b % 8
                  \/ (a % 8 = b % 8 /\ a \div 8 < b \div 8)
        /\ [j \in 1 .. Len(graph[0].edges) |-> graph[0].edges[j].target] = <<17, 10>>
        /\ EdgeAt(graph[0], 0).target = 17

\* a freshly built graph, seen at a square with edges in several columns
C4_Witness == AfterConstruction /\ Len(graph[27].edges) = 8 /\ EdgeAt(graph[0], 1).target = 10

\* C5: within a cycle no pheromone changes from the start of the first ant's tour to
\* the end of the last ant's: no step out of or into the tour phase changes the
\* graph, and whenever the graph changes the tours of all 64 ants have returned.
C5_NoDepositDuringTours ==
    [][ /\ (pc = "tour" \/ pc' = "tour") => graph' = graph
        /\ graph' # graph => \A i \in Squares : calls.tour[i] = 1 ]_vars

\* the first deposit of a cycle has been made, after all 64 tours
C5_Witness ==
    /\ pc = "lay" /\ ai = 1
    /\ \A i \in Squares : calls.tour[i] = 1
    /\ Len(ants[0].moves) > 0

\* C6: a cycle has 64 ants, ant i starting on square i; each runs tour once, then each
\* runs lay_pheromone once, and then evaporate_pheromones runs, once per cycle, so
\* that the deposits of every earlier cycle have evaporated when tours read them.
C6_EveryAntOnceThenEvaporate ==
    /\ pc \in {"tour", "lay", "evaporate"} =>
          /\ DOMAIN ants = Squares
          /\ \A i \in Squares : ants[i].start = i
    /\ pc = "tour" =>
          \A i \in Squares :
              /\ calls.tour[i] = (IF i < ai THEN 1 ELSE 0)
              /\ calls.lay[i] = 0
              /\ i > ai => ants[i] = AntNew(i)
    /\ pc = "lay" =>
          \A i \in Squares :
              /\ calls.tour[i] = 1
              /\ calls.lay[i] = (IF i < ai THEN 1 ELSE 0)
    /\ (pc = "evaporate" \/ (pc \in {"run", "done"} /\ cyc > 0)) =>
          \A i \in Squares : calls.tour[i] = 1 /\ calls.lay[i] = 1
    /\ calls.evaporate = cyc

\* a second cycle's tours under way, the first cycle's deposits evaporated once
C6_Witness ==
    /\ pc = "tour" /\ cyc = 1 /\ ai = NumSquares - 1
    /\ calls.evaporate = 1
    /\ Len(ants[ai].moves) > 0

\* C7: evaporate_pheromones(rate) leaves on every edge its former pheromone times
\* (1 - rate) and changes nothing else; rate 0.25 turns 1.0 into 0.75, rate 0 changes
\* no value.
C7_EvaporateScalesEveryEdge ==
    pc = "evaporate" =>
        LET after == EvaporatePheromones(graph, p_evap_rate)
        IN  /\ DOMAIN after = Squares
            /\ \A s \in Squares :
                  /\ DOMAIN after[s].edges = DOMAIN graph[s].edges
                  /\ \A j \in DOMAIN graph[s].edges :
                        LET old == graph[s].edges[j].pheromone
                            new == after[s].edges[j].pheromone
                        IN  /\ BigMulSmall(new, RateDen)
                                = BigMulSmall(old, RateDen - p_evap_rate)
                            /\ after[s].edges[j].target = graph[s].edges[j].target
                            /\ p_evap_rate = 0 => new = old
                            /\ (p_evap_rate = 1 /\ old = One) => new = Ratio(3, 4)

\* evaporation at rate 0.25 has turned an edge's 1.0 into 0.75
C7_Witness ==
    /\ pc = "run" /\ cyc = 1 /\ p_evap_rate = 1
    /\ \E s \in Squares : \E j \in DOMAIN graph[s].edges :
          graph[s].edges[j].pheromone = Ratio(3, 4)

\* C8: lay_pheromone of an ant whose tour has returned lowers the pheromone of no
\* edge.
C8_LayNeverLowers ==
    pc = "lay" =>
        LET after == LayPheromone(ants[ai], graph)
        IN  \A s \in Squares : \A j \in DOMAIN graph[s].edges :
                BigLeq(graph[s].edges[j].pheromone, after[s].edges[j].pheromone)

\* an ant with recorded moves about to lay on a graph other ants have laid on
C8_Witness == pc = "lay" /\ ai > 0 /\ Len(ants[ai].moves) > 0

\* C9: run(cycles) makes exactly cycles cycles; the counters start at 0, never go
\* down, grow by one in total with every tour that returns and by nothing
\* otherwise, and add up to 64 after each completed cycle.
C9_RunCountsEveryTour ==
    /\ complete = 0 /\ incomplete = 0
    /\ [](/\ cyc <= cycles
          /\ pc = "done" => (cyc = cycles /\ calls.evaporate = cycles)
          /\ complete + incomplete
                = NumSquares * cyc
                    + (IF pc = "tour" THEN ai
                       ELSE IF pc \in {"lay", "evaporate"} THEN NumSquares ELSE 0))
    /\ [][ /\ complete' >= complete
           /\ incomplete' >= incomplete
           /\ (complete' + incomplete') - (complete + incomplete)
                 = (IF pc = "tour" /\ <<pc', ai'>> # <<pc, ai>> THEN 1 ELSE 0) ]_vars

\* run has returned after at least one cycle, with tours of both kinds counted
C9_Witness == pc = "done" /\ cycles >= 1 /\ complete > 0 /\ incomplete > 0

\* every draw of every tape
AllDraws == UNION {Range(t) : t \in Tapes}

\* C10 (as claimed): when the weights of the available moves add up to zero, the move
\* chosen is one of the available moves, and each available move is chosen for some
\* draw.
C10_ZeroSumChoosesAvailable ==
    (pc = "tour" /\ ~DeadEnd(ants[ai], graph)
        /\ BigIsZero(PkSum(Pks(ants[ai], graph)))) =>
        LET pks == Pks(ants[ai], graph)
        IN  /\ \E j \in 1 .. Len(pks) : pks[j][1] = ChooseEdge(pks, draws[di])
            /\ \A j \in 1 .. Len(pks) :
                  \E d \in AllDraws : ChooseEdge(pks, d) = pks[j][1]

\* what of a graph is not pheromone: the squares, their coordinates, and the targets of
\* their edges in stored order
Structure(g) ==
    [s \in DOMAIN g |->
        [x |-> g[s].x, y |-> g[s].y,
         targets |-> [j \in DOMAIN g[s].edges |-> g[s].edges[j].target]]]

BuiltStructure == Structure(GraphNew(BigZero))

\* C12: from Graph::new on, through every tour, lay_pheromone, evaporate_pheromones
\* and cycle, the graph keeps its 64 squares, their coordinates and their edge lists
\* (same edges, same targets, same order), so that only pheromone values change; and
\* no step of Ant::tour changes anything in the graph.
C12_StructureNeverChanges ==
    /\ [](Structure(graph) = BuiltStructure)
    /\ [][pc = "tour" => graph' = graph]_vars

\* deposits and an evaporation have changed the pheromone of an edge of square 0
C12_Witness ==
    /\ pc = "run" /\ cyc = 1
    /\ \E j \in DOMAIN graph[0].edges :
          graph[0].edges[j].pheromone # Ratio(p_initial_level[1], p_initial_level[2])

\* C13: with an initial level >= 0 and a rate in [0, 1), after construction, after
\* every deposit and after every evaporation the pheromone of every edge is
\* non-negative, and when the initial level is above 0 it is above 0 (exact
\* arithmetic).  The graph does not change while tours run, so the states between
\* tours are all there is to look at.
C13_PheromoneNeverNegative ==
    pc # "tour" =>
        \A s \in Squares : \A j \in DOMAIN graph[s].edges :
            LET p == graph[s].edges[j].pheromone
            IN  /\ \A d \in 1 .. Digits : p[d] >= 0
                /\ p_initial_level[1] > 0 => ~BigIsZero(p)

\* a positive initial level after deposits and an evaporation at rate 0.25
C13_Witness ==
    /\ pc = "done" /\ cyc >= 1
    /\ p_initial_level[1] > 0 /\ p_evap_rate = 1
    /\ ~BigIsZero(graph[0].edges[1].pheromone)

\* C14: lay_pheromone of an ant with n recorded moves adds (n - i) / (63 - i) to edge
\* moves[i] of the square the ant stood on at step i, for every i < n, that edge
\* leading to the square it stood on next; every other edge keeps its pheromone;
\* an ant without recorded move changes nothing.
C14_LayAddsShareAlongPath ==
    [][pc = "lay" =>
        LET ant    == ants[ai]
            n      == Len(ant.moves)
            onPath == {<<ant.tabu[i + 1], ant.moves[i + 1] + 1>> : i \in 0 .. (n - 1)}
        IN  /\ \A i \in 0 .. (n - 1) :
                  LET s == ant.tabu[i + 1]
                      j == ant.moves[i + 1] + 1
                  IN  /\ graph'[s].edges[j].pheromone
                            = BigAdd(graph[s].edges[j].pheromone, Ratio(n - i, 63 - i))
                      /\ graph[s].edges[j].target = ant.tabu[i + 2]
            /\ \A s \in Squares :
                  \/ graph'[s] = graph[s]
                  \/ \E j \in DOMAIN graph[s].edges :
                        /\ <<s, j>> \in onPath
                        /\ [graph'[s] EXCEPT !.edges[j] = graph[s].edges[j]] = graph[s]
            /\ LayPheromone(AntNew(ai), graph) = graph ]_vars

\* an ant whose tour stopped early lays after other ants have
C14_Witness ==
    /\ pc = "lay" /\ ai >= 1
    /\ Len(ants[ai].moves) \in 2 .. (MaxMoves - 1)
    /\ Len(ants[ai - 1].moves) > 0

\* C15: when there is an available move and the weights add up to more than zero, the
\* move chosen for the draw x = a / b is the first available move, in stored edge
\* order, at which the running sum of the probabilities pheromone / sum reaches x;
\* it leads to a square not in tabu, edges to squares in tabu are not in the list,
\* and with equal pheromone every move has probability 1 / n.
C15_FirstMoveWhoseRunningSumReachesDraw ==
    [][(pc = "tour" /\ ants' # ants) =>
        LET ant  == ants[ai]
            node == graph[ant.current]
            pks  == Pks(ant, graph)
            n    == Len(pks)
            sum  == PkSum(pks)
            a    == draws[di][1]
            b    == draws[di][2]
            \* the move the step has recorded
            k    == ants'[ai].moves[Len(ants'[ai].moves)]
            xsum == BigMulSmall(sum, a)
            seen == Range(ant.tabu)
            \* the edges (counted from 1) to squares not visited
            open == {e \in DOMAIN node.edges : node.edges[e].target \notin seen}
            \* a / b <= (pks[1] + .. + pks[j]) / sum
            Reached(j) == BigLeq(xsum, BigMulSmall(SumFrom(pks, j), b))
        IN  (n > 0 /\ ~BigIsZero(sum)) =>
            /\ \E j \in 1 .. n :
                  /\ pks[j][1] = k
                  /\ Reached(j)
                  /\ \A i \in 1 .. (j - 1) : ~Reached(i)
            /\ (k + 1) \in open
            /\ ants'[ai].current = EdgeAt(node, k).target
            /\ {pks[j][1] + 1 : j \in 1 .. n} = open
            /\ \A j \in 1 .. (n - 1) : pks[j][1] < pks[j + 1][1]
            /\ (\A j \in 1 .. n : pks[j][2] = pks[1][2]) =>
                  \E j \in 1 .. n :
                      /\ pks[j][1] = k
                      /\ a * n <= b * j
                      /\ \A i \in 1 .. (j - 1) : a * n > b * i ]_vars

\* a choice among several moves of unequal pheromone, an edge of the square being
\* closed by tabu and the move chosen not being the first of the list
C15_Witness ==
    /\ pc = "tour" /\ ~DeadEnd(ants[ai], graph)
    /\ LET pks == Pks(ants[ai], graph)
       IN  /\ Len(pks) >= 2
           /\ Len(pks) < Len(graph[ants[ai].current].edges)
           /\ \E j \in 2 .. Len(pks) : pks[j][2] # pks[1][2]
           /\ ChooseEdge(pks, draws[di]) # pks[1][1]

\* C16 (as claimed): when the whole list of probabilities has been scanned and x is
\* still above zero, rounding having eaten part of the sum, the move taken is the
\* last of the available moves.
C16_LeftoverTakesLastMove ==
    (pc = "tour" /\ ~DeadEnd(ants[ai], graph)) =>
        LET pks == Pks(ants[ai], graph)
            ps  == F32Ps(pks)
        IN  F32XAfter(ps, Len(ps), F32OfDraw(draws[di])) > 0 =>
                F32ChooseEdge(pks, draws[di]) = pks[Len(pks)][1]

\* the step (from 1) at which the ant left square s, 0 if it never did
StepAt(ant, s) ==
    IF \E q \in 1 .. Len(ant.moves) : ant.tabu[q] = s
    THEN CHOOSE q \in 1 .. Len(ant.moves) : ant.tabu[q] = s
    ELSE 0

\* what the ants lo .. hi deposit on edge j of square s; step[a] is StepAt(ants[a], s)
RECURSIVE DepositsOn(_, _, _, _)
DepositsOn(j, step, lo, hi) ==
    IF lo = hi
    THEN LET q == step[lo]
         IN  IF q > 0 /\ ants[lo].moves[q] = j - 1
             THEN Ratio(Len(ants[lo].moves) - (q - 1), 63 - (q - 1))
             ELSE BigZero
    ELSE LET mid == (lo + hi) \div 2
         IN  BigAdd(DepositsOn(j, step, lo, mid), DepositsOn(j, step, mid + 1, hi))

\* lay_pheromone of the ants i, i - 1, .. down to ant last, in that order
RECURSIVE LayDownFrom(_, _, _)
LayDownFrom(g, i, last) ==
    IF i < last THEN g
    ELSE LET g1 == LayPheromone(ants[i], g)
         IN  IF DOMAIN g1 = DOMAIN g THEN LayDownFrom(g1, i - 1, last) ELSE g1

\* C17: the deposits of a cycle do not depend on the order of the lay_pheromone
\* calls (exact arithmetic): when the 64 ants have laid in the order 0 .. 63 the
\* graph is the one the order 63 .. 0 gives, and every edge holds its pheromone from
\* before the deposits plus the sum of all deposits made on it.
C17_DepositOrderIndifferent ==
    (pc = "evaporate" /\ cyc = 0) =>
        LET before == GraphNew(Ratio(p_initial_level[1], p_initial_level[2]))
            g7 == LayDownFrom(before, 63, 56)
            g6 == LayDownFrom(g7, 55, 48)
            g5 == LayDownFrom(g6, 47, 40)
            g4 == LayDownFrom(g5, 39, 32)
            g3 == LayDownFrom(g4, 31, 24)
            g2 == LayDownFrom(g3, 23, 16)
            g1 == LayDownFrom(g2, 15, 8)
            g0 == LayDownFrom(g1, 7, 0)
        IN  /\ \A g \in {g7} : DOMAIN g = Squares
            /\ \A g \in {g6} : DOMAIN g = Squares
            /\ \A g \in {g5} : DOMAIN g = Squares
            /\ \A g \in {g4} : DOMAIN g = Squares
            /\ \A g \in {g3} : DOMAIN g = Squares
            /\ \A g \in {g2} : DOMAIN g = Squares
            /\ \A g \in {g1} : DOMAIN g = Squares
            /\ graph = g0
            /\ \A s \in Squares :
                  LET step == [i \in Squares |-> StepAt(ants[i], s)]
                  IN  \A j \in DOMAIN graph[s].edges :
                          graph[s].edges[j].pheromone
                              = BigAdd(before[s].edges[j].pheromone,
                                       DepositsOn(j, step, 0, NumSquares - 1))

\* all 64 ants have laid, and two of them have laid on a same edge of square 17
C17_Witness ==
    /\ pc = "evaporate" /\ cyc = 0
    /\ \E i, k \in Squares :
          /\ i < k
          /\ StepAt(ants[i], 17) > 0 /\ StepAt(ants[k], 17) > 0
          /\ ants[i].moves[StepAt(ants[i], 17)] = ants[k].moves[StepAt(ants[k], 17)]

\* C18: for an ant whose tour has returned with n moves, the deposit of every step
\* i < n has a divisor 63 - i >= 1 and lies above 0 and at most at 1; it is 1.0 at
\* every step of a complete tour; for a shorter tour it is below 1.0 at every step
\* and falls from each step to the next.
C18_DepositBetweenZeroAndOne ==
    pc = "lay" =>
        LET n == Len(ants[ai].moves)
        IN  /\ n <= MaxMoves
            /\ \A i \in 0 .. (n - 1) :
                  LET d == DeltaPheromone(n, i)
                  IN  /\ 63 - i >= 1
                      /\ ~BigIsZero(d)
                      /\ BigLeq(d, One)
                      /\ n = 63 => d = One
                      /\ n < 63 => BigLess(d, One)
                      /\ (n < 63 /\ i + 1 < n) => BigLess(DeltaPheromone(n, i + 1), d)

\* a complete tour's ant lays in a cycle in which another ant's tour stopped early
C18_Witness ==
    /\ pc = "lay" /\ TourResult(ants[ai])
    /\ \E i \in Squares : Len(ants[i].moves) \in 2 .. (MaxMoves - 1)

\* C19 (as claimed): whatever the start square, the pheromone (zero included) and the
\* draws, a tour never goes beyond 63 steps and every step brings one square more
\* into the path, so that the path of an ant that has made m steps holds m + 1
\* different squares.
C19_TourEndsWithin63Steps ==
    pc = "tour" =>
        /\ Len(ants[ai].moves) <= 63
        /\ Cardinality(Range(ants[ai].tabu)) = Len(ants[ai].moves) + 1

\* the square lay_pheromone stands on after it has replayed the first i moves
RECURSIVE ReplayFrom(_, _, _, _)
ReplayFrom(g, ant, i, current) ==
    IF i >= Len(ant.moves) THEN current
    ELSE ReplayFrom(g, ant, i + 1, EdgeAt(g[current], ant.moves[i + 1]).target)

\* C20: between the steps of a tour tabu is one longer than moves, starts with the
\* start square and ends with the current square, and edge moves[i] of square
\* tabu[i] leads to square tabu[i + 1]; so the replay of lay_pheromone goes through
\* the squares of tabu and ends on the ant's current square.
C20_RecordedPathIsTheWalk ==
    /\ pc = "tour" =>
          LET ant == ants[ai]
          IN  /\ Len(ant.tabu) = Len(ant.moves) + 1
              /\ ant.tabu[1] = ant.start
              /\ ant.tabu[Len(ant.tabu)] = ant.current
              /\ \A i \in 1 .. Len(ant.moves) :
                    EdgeAt(graph[ant.tabu[i]], ant.moves[i]).target = ant.tabu[i + 1]
    /\ pc = "lay" =>
          /\ ReplayFrom(graph, ants[ai], 0, ants[ai].start) = ants[ai].current
          /\ \A i \in 1 .. Len(ants[ai].moves) :
                EdgeAt(graph[ants[ai].tabu[i]], ants[ai].moves[i]).target
                    = ants[ai].tabu[i + 1]

\* an ant in the middle of its walk, away from its start, with moves still open
C20_Witness ==
    /\ pc = "tour" /\ Len(ants[ai].moves) >= 3
    /\ ~DeadEnd(ants[ai], graph)
    /\ ants[ai].current # ants[ai].start
    /\ p_initial_level[1] > 0

====
